---- MODULE Spec2Model ----
(***************************************************************************)
(* Model of native/dev_snp_nif/sev/src/certs/snp/cert.rs: the Certificate  *)
(* wrapper over an X509 structure, the CertFormat enumeration, the format  *)
(* detector identify_format, the facade from_bytes and the pairwise        *)
(* verifier.  Byte buffers are sequences of numbers 0..255.                *)
(***************************************************************************)
EXTENDS Integers, Sequences, FiniteSets, TLC

VARIABLES op, arg, result, calls, certs

vars == <<op, arg, result, calls, certs>>

(***************************************************************************)
(* Bounds of the model.                                                    *)
(***************************************************************************)
MaxSubject == 2
MaxKey == 2
MaxJunk == 1
MaxSlice == 2
MaxStrLen == 3

(***************************************************************************)
(* Outcomes of a call: Ok / Err of a Result, Ret for a plain return value, *)
(* Panic for an unwinding panic.                                           *)
(***************************************************************************)
Ok(v) == [tag |-> "Ok", val |-> v]
Err(e) == [tag |-> "Err", val |-> e]
Ret(v) == [tag |-> "Ret", val |-> v]
Panic(m) == [tag |-> "Panic", val |-> [type |-> "panic", msg |-> m]]

Unit == <<>>

\* The library's error value, naming the library routine that failed.
ErrorStack(routine) == [type |-> "ErrorStack", msg |-> routine]

\* Error::new(kind, payload)
Error_new(kind, payload) == [kind |-> kind, error |-> payload]

\* The conversion the ? operator applies to a library error.
From_ErrorStack_for_Error(e) == Error_new("Other", e)

(***************************************************************************)
(* Byte literals.                                                          *)
(***************************************************************************)
\* b"-----BEGIN CERTIFICATE-----"
PEM_START == <<45, 45, 45, 45, 45, 66, 69, 71, 73, 78, 32, 67, 69, 82, 84, 73, 70, 73, 67, 65, 84, 69, 45, 45, 45, 45, 45>>

\* b"-----END CERTIFICATE-----"
PEM_END == <<45, 45, 45, 45, 45, 69, 78, 68, 32, 67, 69, 82, 84, 73, 70, 73, 67, 65, 84, 69, 45, 45, 45, 45, 45>>

\* The two UTCTime fields of the test certificate: 201022172305Z, 451022172305Z
DerValidity == <<48, 30, 23, 13, 50, 48, 49, 48, 50, 50, 49, 55, 50, 51, 48, 53, 90, 23, 13, 52, 53, 49, 48, 50, 50, 49, 55, 50, 51, 48, 53, 90>>

\* The fourteen bytes of test_identify_format_panic_der
DummyDerShort == <<48, 130, 6, 99, 48, 130, 4, 18, 160, 3, 2, 1, 2, 2>>

NewLine == 10

(***************************************************************************)
(* The parsed X509 structure of the external library: a subject, a public  *)
(* key (0: key material the library cannot decode) and the key that made   *)
(* the signature (0: a signature the library cannot process).              *)
(***************************************************************************)
Subjects == 1..MaxSubject
X509s == [subject : Subjects, pk : 0..MaxKey, signedBy : 0..MaxKey]

(***************************************************************************)
(* External library: DER encoding and decoding of an X509 structure.       *)
(***************************************************************************)
DerBody(x) == <<2, 1, x.subject>> \o DerValidity \o <<3, 2, 0, x.pk>> \o <<3, 2, 0, x.signedBy>>

X509_to_der(x) == Ok(<<48, Len(DerBody(x))>> \o DerBody(x))

\* d2i: one SEQUENCE of the declared length; bytes after it are not read.
X509_from_der(der) ==
    IF /\ Len(der) >= 2
       /\ der[1] = 48
       /\ Len(der) >= 2 + der[2]
       /\ \E x \in X509s : SubSeq(der, 3, 2 + der[2]) = DerBody(x)
    THEN Ok(CHOOSE x \in X509s : SubSeq(der, 3, 2 + der[2]) = DerBody(x))
    ELSE Err(ErrorStack("d2i_X509"))

(***************************************************************************)
(* External library: base64 and PEM framing.                               *)
(***************************************************************************)
B64Char(i) ==
    IF i < 26 THEN 65 + i
    ELSE IF i < 52 THEN 97 + (i - 26)
    ELSE IF i < 62 THEN 48 + (i - 52)
    ELSE IF i = 62 THEN 43 ELSE 47

B64Val(c) ==
    IF c >= 65 /\ c <= 90 THEN c - 65
    ELSE IF c >= 97 /\ c <= 122 THEN c - 97 + 26
    ELSE IF c >= 48 /\ c <= 57 THEN c - 48 + 52
    ELSE IF c = 43 THEN 62
    ELSE IF c = 47 THEN 63 ELSE -1

RECURSIVE Base64Encode(_)
Base64Encode(bs) ==
    IF Len(bs) = 0 THEN <<>>
    ELSE IF Len(bs) = 1
    THEN <<B64Char(bs[1] \div 4), B64Char((bs[1] % 4) * 16), 61, 61>>
    ELSE IF Len(bs) = 2
    THEN <<B64Char(bs[1] \div 4), B64Char((bs[1] % 4) * 16 + bs[2] \div 16),
           B64Char((bs[2] % 16) * 4), 61>>
    ELSE <<B64Char(bs[1] \div 4), B64Char((bs[1] % 4) * 16 + bs[2] \div 16),
           B64Char((bs[2] % 16) * 4 + bs[3] \div 64), B64Char(bs[3] % 64)>>
         \o Base64Encode(SubSeq(bs, 4, Len(bs)))

B64Valid(cs) ==
    /\ Len(cs) % 4 = 0
    /\ \A i \in 1..Len(cs) :
          \/ B64Val(cs[i]) >= 0
          \/ /\ cs[i] = 61
             /\ i >= Len(cs) - 1
             /\ cs[Len(cs)] = 61

RECURSIVE Base64Decode(_)
Base64Decode(cs) ==
    IF Len(cs) = 0 THEN <<>>
    ELSE LET a == B64Val(cs[1])
             b == B64Val(cs[2])
             c == B64Val(cs[3])
             d == B64Val(cs[4])
             group == IF cs[3] = 61 THEN <<a * 4 + b \div 16>>
                      ELSE IF cs[4] = 61
                      THEN <<a * 4 + b \div 16, (b % 16) * 16 + c \div 4>>
                      ELSE <<a * 4 + b \div 16, (b % 16) * 16 + c \div 4, (c % 4) * 64 + d>>
         IN group \o Base64Decode(SubSeq(cs, 5, Len(cs)))

RECURSIVE Wrap64(_)
Wrap64(cs) ==
    IF Len(cs) <= 64 THEN cs \o <<NewLine>>
    ELSE SubSeq(cs, 1, 64) \o <<NewLine>> \o Wrap64(SubSeq(cs, 65, Len(cs)))

X509_to_pem(x) ==
    Ok(PEM_START \o <<NewLine>> \o Wrap64(Base64Encode(X509_to_der(x).val)) \o PEM_END \o <<NewLine>>)

\* The positions at which a line of the buffer starts.
LineStarts(bs) == {i \in 1..Len(bs) : i = 1 \/ bs[i - 1] = NewLine}

\* The line starting at s is exactly the given marker.
LineIs(bs, s, marker) ==
    /\ s + Len(marker) - 1 <= Len(bs)
    /\ SubSeq(bs, s, s + Len(marker) - 1) = marker
    /\ (s + Len(marker) <= Len(bs) => bs[s + Len(marker)] = NewLine)

Min(S) == CHOOSE m \in S : \A n \in S : m <= n

NotNewLine(b) == b # NewLine

\* The PEM reader skips every line before the BEGIN line, then reads the
\* base64 body up to the END line and decodes the DER inside.
X509_from_pem(pem) ==
    LET begins == {s \in LineStarts(pem) : LineIs(pem, s, PEM_START)}
    IN IF begins = {} THEN Err(ErrorStack("PEM_read_bio_X509"))
       ELSE LET s == Min(begins)
                ends == {e \in LineStarts(pem) : e > s /\ LineIs(pem, e, PEM_END)}
            IN IF ends = {} THEN Err(ErrorStack("PEM_read_bio_X509"))
               ELSE LET body == SelectSeq(SubSeq(pem, s + Len(PEM_START) + 1, Min(ends) - 1), NotNewLine)
                    IN IF ~B64Valid(body) THEN Err(ErrorStack("PEM_read_bio_X509"))
                       ELSE LET x == X509_from_der(Base64Decode(body))
                            IN IF x.tag = "Ok" THEN x
                               ELSE Err(ErrorStack("PEM_read_bio_X509"))

\* External library: public key extraction and signature check.
X509_public_key(x) ==
    IF x.pk = 0 THEN Err(ErrorStack("X509_get_pubkey")) ELSE Ok(x.pk)

X509_verify(x, key) ==
    IF x.signedBy = 0 THEN Err(ErrorStack("X509_verify")) ELSE Ok(x.signedBy = key)

(***************************************************************************)
(* struct Certificate(X509) and its conversions.                           *)
(***************************************************************************)
Certificate == {<<x>> : x \in X509s}

From_X509_for_Certificate(x509) == <<x509>>

From_Certificate_for_X509(cert) == cert[1]

From_CertificateRef_for_X509(cert) == cert[1]

From_X509Ref_for_Certificate(value) == <<value>>

From_X509Slice_for_Certificate(value) ==
    IF Len(value) = 0
    THEN Panic("index out of bounds: the len is 0 but the index is 0")
    ELSE Ret(From_X509_for_Certificate(value[1]))

(***************************************************************************)
(* impl Certificate                                                        *)
(***************************************************************************)
from_pem(pem) ==
    LET r == X509_from_pem(pem)
    IN IF r.tag = "Err" THEN Err(From_ErrorStack_for_Error(r.val)) ELSE Ok(<<r.val>>)

\* Variant of to_pem that serializes with the DER encoder.
to_pem_as_der(self) ==
    LET r == X509_to_der(self[1])
    IN IF r.tag = "Err" THEN Err(From_ErrorStack_for_Error(r.val)) ELSE Ok(r.val)

to_pem(self) ==
    LET r == X509_to_pem(self[1])
    IN IF r.tag = "Err" THEN Err(From_ErrorStack_for_Error(r.val)) ELSE Ok(r.val)

from_der(der) ==
    LET r == X509_from_der(der)
    IN IF r.tag = "Err" THEN Err(From_ErrorStack_for_Error(r.val)) ELSE Ok(<<r.val>>)

to_der(self) ==
    LET r == X509_to_der(self[1])
    IN IF r.tag = "Err" THEN Err(From_ErrorStack_for_Error(r.val)) ELSE Ok(r.val)

public_key(self) ==
    LET r == X509_public_key(self[1])
    IN IF r.tag = "Err" THEN Err(From_ErrorStack_for_Error(r.val)) ELSE Ok(r.val)

\* Variant of identify_format that compares one byte too few.
identify_format_prefix26(bytes) ==
    IF Len(bytes) < 27
    THEN Panic("range end index 27 out of range for slice")
    ELSE IF SubSeq(bytes, 1, 26) = SubSeq(PEM_START, 1, 26) THEN Ret("Pem") ELSE Ret("Der")

\* &bytes[0..27] panics when the buffer has fewer than 27 bytes.
identify_format(bytes) ==
    IF Len(bytes) < 27
    THEN Panic("range end index 27 out of range for slice")
    ELSE IF SubSeq(bytes, 1, 27) = PEM_START THEN Ret("Pem") ELSE Ret("Der")

\* Variant of from_bytes with the two match arms exchanged.
from_bytes_swapped(raw_bytes) ==
    LET f == identify_format(raw_bytes)
    IN IF f.tag = "Panic" THEN [result |-> f, calls |-> <<>>]
       ELSE IF f.val = "Pem"
       THEN [result |-> from_der(raw_bytes), calls |-> <<"from_der">>]
       ELSE [result |-> from_pem(raw_bytes), calls |-> <<"from_pem">>]

\* The facade, with the decoders it calls; a panic of identify_format unwinds.
from_bytes(raw_bytes) ==
    LET f == identify_format(raw_bytes)
    IN IF f.tag = "Panic" THEN [result |-> f, calls |-> <<>>]
       ELSE IF f.val = "Pem"
       THEN [result |-> from_pem(raw_bytes), calls |-> <<"from_pem">>]
       ELSE [result |-> from_der(raw_bytes), calls |-> <<"from_der">>]

(***************************************************************************)
(* The byte buffers handed to the detector and the decoders.               *)
(***************************************************************************)
Junk(k) == [i \in 1..k |-> NewLine]

Replace(bs, i, b) == [bs EXCEPT ![i] = b]

PemOf(x) == X509_to_pem(x).val
DerOf(x) == X509_to_der(x).val

SomeX509 == [subject |-> 1, pk |-> 1, signedBy |-> 1]

ShortBuffers ==
    {SubSeq(PEM_START, 1, n) : n \in 0..26}
      \cup {DummyDerShort}
      \cup {SubSeq(DerOf(SomeX509), 1, 26)}

PemBuffers == {PemOf(x) \o Junk(k) : x \in X509s, k \in 0..MaxJunk}

LeadingTextPemBuffers == {Junk(k) \o PemOf(x) : x \in X509s, k \in 1..MaxJunk}

DerBuffers == {DerOf(x) \o Junk(k) : x \in X509s, k \in 0..MaxJunk}

\* One byte of the marker altered, in front of an otherwise valid PEM body.
AlteredMarkerBuffers == {Replace(PemOf(SomeX509), i, 88) : i \in 1..27}

MalformedBuffers ==
    { PEM_START,
      PEM_START \o <<NewLine>>,
      PEM_START \o <<45>> \o SubSeq(PemOf(SomeX509), 28, Len(PemOf(SomeX509))),
      PEM_START \o <<NewLine, 33, 33, 33, 33, NewLine>> \o PEM_END \o <<NewLine>>,
      SubSeq(PemOf(SomeX509), 1, 60),
      Replace(DerOf(SomeX509), 1, 49),
      Replace(DerOf(SomeX509), 3, 4),
      SubSeq(DerOf(SomeX509), 1, 30),
      DerOf(SomeX509) \o <<NewLine>> \o PemOf([subject |-> 1, pk |-> 1, signedBy |-> 0]) }

Buffers ==
    ShortBuffers \cup PemBuffers \cup LeadingTextPemBuffers \cup DerBuffers
      \cup AlteredMarkerBuffers \cup MalformedBuffers

(***************************************************************************)
(* Spec: the format detector and the facade, each applied to a raw buffer. *)
(* arg is the input of the call, op the operation that ran, result its     *)
(* outcome, calls the calls made, certs the Certificate values alive.      *)
(***************************************************************************)
Init ==
    /\ op = "init"
    /\ arg \in Buffers
    /\ result = Ret(Unit)
    /\ calls = <<>>
    /\ certs = <<>>

IdentifyFormat ==
    /\ op = "init"
    /\ op' = "identify_format"
    /\ result' = identify_format(arg)
    /\ calls' = <<"identify_format">>
    /\ UNCHANGED <<arg, certs>>

FromBytes ==
    /\ op = "init"
    /\ op' = "from_bytes"
    /\ result' = from_bytes(arg).result
    /\ calls' = <<"from_bytes">> \o from_bytes(arg).calls
    /\ certs' = IF from_bytes(arg).result.tag = "Ok" THEN <<from_bytes(arg).result.val>> ELSE <<>>
    /\ UNCHANGED arg

Next == IdentifyFormat \/ FromBytes

Spec == Init /\ [][Next]_vars

(***************************************************************************)
(* SpecCodec: a buffer is decoded, the Certificate is serialized, and the  *)
(* serialization is decoded again.  certs holds the Certificate of the     *)
(* first decoding, calls the operations that ran.                          *)
(***************************************************************************)
FromPem ==
    /\ \/ op = "init"
       \/ op = "to_pem" /\ result.tag = "Ok"
    /\ LET pem == IF op = "init" THEN arg ELSE result.val
           r == from_pem(pem)
       IN /\ result' = r
          /\ certs' = IF op = "init" /\ r.tag = "Ok" THEN <<r.val>> ELSE certs
    /\ op' = "from_pem"
    /\ calls' = Append(calls, "from_pem")
    /\ UNCHANGED arg

FromDer ==
    /\ \/ op = "init"
       \/ op = "to_der" /\ result.tag = "Ok"
    /\ LET der == IF op = "init" THEN arg ELSE result.val
           r == from_der(der)
       IN /\ result' = r
          /\ certs' = IF op = "init" /\ r.tag = "Ok" THEN <<r.val>> ELSE certs
    /\ op' = "from_der"
    /\ calls' = Append(calls, "from_der")
    /\ UNCHANGED arg

ToPem ==
    /\ op \in {"from_pem", "from_der"}
    /\ Len(calls) = 1
    /\ result.tag = "Ok"
    /\ op' = "to_pem"
    /\ result' = to_pem(certs[1])
    /\ calls' = Append(calls, "to_pem")
    /\ UNCHANGED <<arg, certs>>

ToDer ==
    /\ op \in {"from_pem", "from_der"}
    /\ Len(calls) = 1
    /\ result.tag = "Ok"
    /\ op' = "to_der"
    /\ result' = to_der(certs[1])
    /\ calls' = Append(calls, "to_der")
    /\ UNCHANGED <<arg, certs>>

NextCodec == FromPem \/ FromDer \/ ToPem \/ ToDer

SpecCodec == Init /\ [][NextCodec]_vars
(***************************************************************************)
(* impl Verifiable for (&Certificate, &Certificate): the outcome of verify *)
(* and the library calls it makes, in order.                               *)
(***************************************************************************)
LibCall(fn, x509, key) == [fn |-> fn, x509 |-> x509, key |-> key]

\* The error verify builds when the check answers false.
NotSignedError ==
    Error_new("Other", [type |-> "String",
                        msg |-> "Signer certificate does not sign signee certificate"])

\* Variant of verify with the two roles exchanged.
verify_swapped(self) ==
    LET signer == From_CertificateRef_for_X509(self[2])
        signee == From_CertificateRef_for_X509(self[1])
        key == X509_public_key(signer)
        c1 == LibCall("X509::public_key", signer, 0)
    IN IF key.tag = "Err"
       THEN [result |-> Err(From_ErrorStack_for_Error(key.val)), calls |-> <<c1>>]
       ELSE LET signed == X509_verify(signee, key.val)
                c2 == LibCall("X509::verify", signee, key.val)
            IN IF signed.tag = "Err"
               THEN [result |-> Err(From_ErrorStack_for_Error(signed.val)), calls |-> <<c1, c2>>]
               ELSE IF signed.val
               THEN [result |-> Ok(Unit), calls |-> <<c1, c2>>]
               ELSE [result |-> Err(NotSignedError), calls |-> <<c1, c2>>]

\* Variant of verify that reports a false answer as a library error.
verify_stack_on_false(self) ==
    LET signer == From_CertificateRef_for_X509(self[1])
        signee == From_CertificateRef_for_X509(self[2])
        key == X509_public_key(signer)
        c1 == LibCall("X509::public_key", signer, 0)
    IN IF key.tag = "Err"
       THEN [result |-> Err(From_ErrorStack_for_Error(key.val)), calls |-> <<c1>>]
       ELSE LET signed == X509_verify(signee, key.val)
                c2 == LibCall("X509::verify", signee, key.val)
            IN IF signed.tag = "Err" \/ ~signed.val
               THEN [result |-> Err(From_ErrorStack_for_Error(ErrorStack("X509_verify"))),
                     calls |-> <<c1, c2>>]
               ELSE [result |-> Ok(Unit), calls |-> <<c1, c2>>]

\* Variant of verify that replaces a key extraction error by its own error.
verify_masks_key_error(self) ==
    LET signer == From_CertificateRef_for_X509(self[1])
        signee == From_CertificateRef_for_X509(self[2])
        key == X509_public_key(signer)
        c1 == LibCall("X509::public_key", signer, 0)
    IN IF key.tag = "Err"
       THEN [result |-> Err(NotSignedError), calls |-> <<c1>>]
       ELSE LET signed == X509_verify(signee, key.val)
                c2 == LibCall("X509::verify", signee, key.val)
            IN IF signed.tag = "Err"
               THEN [result |-> Err(From_ErrorStack_for_Error(signed.val)), calls |-> <<c1, c2>>]
               ELSE IF signed.val
               THEN [result |-> Ok(Unit), calls |-> <<c1, c2>>]
               ELSE [result |-> Err(NotSignedError), calls |-> <<c1, c2>>]

verify(self) ==
    LET signer == From_CertificateRef_for_X509(self[1])
        signee == From_CertificateRef_for_X509(self[2])
        key == X509_public_key(signer)
        c1 == LibCall("X509::public_key", signer, 0)
    IN IF key.tag = "Err"
       THEN [result |-> Err(From_ErrorStack_for_Error(key.val)), calls |-> <<c1>>]
       ELSE LET signed == X509_verify(signee, key.val)
                c2 == LibCall("X509::verify", signee, key.val)
            IN IF signed.tag = "Err"
               THEN [result |-> Err(From_ErrorStack_for_Error(signed.val)), calls |-> <<c1, c2>>]
               ELSE IF signed.val
               THEN [result |-> Ok(Unit), calls |-> <<c1, c2>>]
               ELSE [result |-> Err(NotSignedError), calls |-> <<c1, c2>>]

(***************************************************************************)
(* SpecVerify: two Certificate values are alive, certs = <<signer, signee>>,*)
(* and verify or public_key is applied to them.                            *)
(***************************************************************************)
InitVerify ==
    /\ op = "init"
    /\ certs \in Certificate \X Certificate
    /\ arg = certs
    /\ result = Ret(Unit)
    /\ calls = <<>>

Verify ==
    /\ op = "init"
    /\ op' = "verify"
    /\ result' = verify(<<certs[1], certs[2]>>).result
    /\ calls' = verify(<<certs[1], certs[2]>>).calls
    /\ UNCHANGED <<arg, certs>>

PublicKey ==
    /\ op = "init"
    /\ op' = "public_key"
    /\ result' = public_key(certs[1])
    /\ calls' = <<LibCall("X509::public_key", certs[1][1], 0)>>
    /\ UNCHANGED <<arg, certs>>

NextVerify == Verify \/ PublicKey

SpecVerify == InitVerify /\ [][NextVerify]_vars

(***************************************************************************)
(* enum CertFormat with Display and FromStr.  Strings are byte sequences.  *)
(***************************************************************************)
CertFormat == {"Pem", "Der"}

\* "pem" and "der"
Str_pem == <<112, 101, 109>>
Str_der == <<100, 101, 114>>

fmt(self) == IF self = "Pem" THEN Ok(Str_pem) ELSE Ok(Str_der)

\* Variant of from_str that ignores the case of the letters.
from_str_any_case(s) ==
    LET lower == [i \in 1..Len(s) |-> IF s[i] >= 65 /\ s[i] <= 90 THEN s[i] + 32 ELSE s[i]]
    IN IF lower = Str_pem THEN Ok("Pem")
       ELSE IF lower = Str_der THEN Ok("Der")
       ELSE Err([type |-> "CertFormatError", msg |-> "UnknownFormat"])

from_str(s) ==
    IF s = Str_pem THEN Ok("Pem")
    ELSE IF s = Str_der THEN Ok("Der")
    ELSE Err([type |-> "CertFormatError", msg |-> "UnknownFormat"])

\* The letters p e m d r and P E M
StrAlphabet == {112, 101, 109, 100, 114, 80, 69, 77}

Strings == UNION {[1..n -> StrAlphabet] : n \in 0..MaxStrLen}

(***************************************************************************)
(* SpecStr: a string is parsed and the parsed value displayed, or a value  *)
(* is displayed and the text parsed.  certs is not used.                   *)
(***************************************************************************)
InitStr ==
    /\ op = "init"
    /\ arg \in Strings
    /\ result = Ret(Unit)
    /\ calls = <<>>
    /\ certs = <<>>

FromStr ==
    /\ \/ op = "init"
       \/ op = "fmt"
    /\ op' = "from_str"
    /\ result' = from_str(IF op = "init" THEN arg ELSE result.val)
    /\ calls' = Append(calls, "from_str")
    /\ UNCHANGED <<arg, certs>>

Display ==
    /\ op = "from_str"
    /\ Len(calls) = 1
    /\ result.tag = "Ok"
    /\ op' = "fmt"
    /\ result' = fmt(result.val)
    /\ calls' = Append(calls, "fmt")
    /\ UNCHANGED <<arg, certs>>

DisplayValue ==
    /\ op = "init"
    /\ \E f \in CertFormat :
          /\ arg' = f
          /\ result' = fmt(f)
    /\ op' = "fmt"
    /\ calls' = <<"fmt">>
    /\ UNCHANGED certs

NextStr == FromStr \/ Display \/ DisplayValue

SpecStr == InitStr /\ [][NextStr]_vars

(***************************************************************************)
(* SpecSlice: the conversions between X509 and Certificate, applied to a   *)
(* slice of parsed X509 structures.                                        *)
(***************************************************************************)
Slices == UNION {[1..n -> X509s] : n \in 0..MaxSlice}

InitSlice ==
    /\ op = "init"
    /\ arg \in Slices
    /\ result = Ret(Unit)
    /\ calls = <<>>
    /\ certs = <<>>

FromSlice ==
    /\ op = "init"
    /\ op' = "from_slice"
    /\ result' = From_X509Slice_for_Certificate(arg)
    /\ certs' = IF Len(arg) > 0 THEN <<From_X509Slice_for_Certificate(arg).val>> ELSE <<>>
    /\ calls' = <<"from_slice">>
    /\ UNCHANGED arg

FromX509 ==
    /\ op = "init"
    /\ Len(arg) = 1
    /\ op' = "from_x509"
    /\ result' = Ret(From_X509_for_Certificate(arg[1]))
    /\ certs' = <<From_X509_for_Certificate(arg[1])>>
    /\ calls' = <<"from_x509">>
    /\ UNCHANGED arg

FromX509Ref ==
    /\ op = "init"
    /\ Len(arg) = 1
    /\ op' = "from_x509_ref"
    /\ result' = Ret(From_X509Ref_for_Certificate(arg[1]))
    /\ certs' = <<From_X509Ref_for_Certificate(arg[1])>>
    /\ calls' = <<"from_x509_ref">>
    /\ UNCHANGED arg

IntoX509 ==
    /\ op \in {"from_slice", "from_x509", "from_x509_ref"}
    /\ Len(certs) = 1
    /\ op' = "into_x509"
    /\ result' = Ret(From_Certificate_for_X509(certs[1]))
    /\ certs' = <<>>
    /\ calls' = Append(calls, "into_x509")
    /\ UNCHANGED arg

NextSlice == FromSlice \/ FromX509 \/ FromX509Ref \/ IntoX509

SpecSlice == InitSlice /\ [][NextSlice]_vars
(***************************************************************************)
(* Properties.                                                             *)
(***************************************************************************)
\* The ASCII text -----BEGIN CERTIFICATE-----, written out letter by letter.
Dashes == <<45, 45, 45, 45, 45>>
MarkerText == Dashes \o <<66, 69, 71, 73, 78>> \o <<32>> \o <<67, 69, 82, 84, 73, 70, 73, 67, 65, 84, 69>> \o Dashes

StartsWithMarker(bs) == Len(bs) >= 27 /\ \A i \in 1..27 : bs[i] = MarkerText[i]

\* C1: for every buffer of 0 to 26 bytes identify_format ends with a defined
\* classification or a defined error: it never panics.
C1_ShortInputDefined ==
    (op = "identify_format" /\ Len(arg) < 27) => result.tag \in {"Ret", "Err"}

\* C2: for every buffer of at least 27 bytes identify_format returns Pem exactly
\* when bytes 0..27 are the ASCII marker and Der otherwise, and the answer is the
\* same for every buffer with the same first 27 bytes.
C2_IdentifyFormat ==
    (op = "identify_format" /\ Len(arg) >= 27) =>
        /\ result.tag = "Ret"
        /\ result.val \in {"Pem", "Der"}
        /\ (result.val = "Pem") <=> StartsWithMarker(arg)
        /\ \A b \in Buffers :
              (Len(b) >= 27 /\ \A i \in 1..27 : b[i] = arg[i]) => identify_format(b) = result

\* C2 witness: a buffer longer than the marker was classified Pem.
C2_Witness ==
    /\ op = "identify_format"
    /\ Len(arg) > 27
    /\ result.tag = "Ret"
    /\ result.val = "Pem"

\* C3 as stated: whenever from_pem accepts the buffer, from_bytes returns the
\* Certificate from_pem returns, and whenever from_der accepts it, the one
\* from_der returns.
C3_FromBytesEqualsDecoder ==
    op = "from_bytes" =>
        /\ from_pem(arg).tag = "Ok" => (result.tag = "Ok" /\ result.val = from_pem(arg).val)
        /\ from_der(arg).tag = "Ok" => (result.tag = "Ok" /\ result.val = from_der(arg).val)

\* C3 amended: whenever from_pem accepts a buffer whose first 27 bytes are the
\* marker, from_bytes returns the Certificate from_pem returns, and whenever
\* from_der accepts the buffer, the one from_der returns.
C3_Amended ==
    op = "from_bytes" =>
        /\ (from_pem(arg).tag = "Ok" /\ StartsWithMarker(arg)) =>
              (result.tag = "Ok" /\ result.val = from_pem(arg).val)
        /\ from_der(arg).tag = "Ok" => (result.tag = "Ok" /\ result.val = from_der(arg).val)

\* C3 witness: from_bytes decoded a buffer that begins with the marker and that
\* from_pem accepts.
C3_Witness ==
    /\ op = "from_bytes"
    /\ StartsWithMarker(arg)
    /\ from_pem(arg).tag = "Ok"
    /\ result.tag = "Ok"

\* C6: from_bytes ends with a Certificate or with the error of the one decoder
\* identify_format selected, having called exactly that one decoder.
C6_FromBytesTypedResult ==
    op = "from_bytes" =>
        /\ result.tag \in {"Ok", "Err"}
        /\ \/ calls = <<"from_bytes", "from_pem">> /\ StartsWithMarker(arg) /\ result = from_pem(arg)
           \/ calls = <<"from_bytes", "from_der">> /\ ~StartsWithMarker(arg) /\ result = from_der(arg)

\* The Certificate in the role of signer, the one in the role of signee, and
\* what the library answers for them.
Signer == certs[1][1]
Signee == certs[2][1]
KeyExtracted == X509_public_key(Signer).tag = "Ok"
CheckCompleted == KeyExtracted /\ X509_verify(Signee, X509_public_key(Signer).val).tag = "Ok"
SignatureValid == CheckCompleted /\ X509_verify(Signee, X509_public_key(Signer).val).val

\* C4: when the signer's key can be extracted and the check completes, verify
\* returns Ok exactly when the signee's signature validates under the signer's
\* key and an error otherwise, and the library is asked for the signer's key
\* and for the check of the signee, never the other way round.
C4_VerifyIff ==
    (op = "verify" /\ CheckCompleted) =>
        /\ result.tag \in {"Ok", "Err"}
        /\ (result.tag = "Ok") <=> SignatureValid
        /\ calls = <<LibCall("X509::public_key", Signer, 0),
                     LibCall("X509::verify", Signee, X509_public_key(Signer).val)>>

\* C4 witness: verify succeeded on two certificates with different keys.
C4_Witness ==
    /\ op = "verify"
    /\ result.tag = "Ok"
    /\ Signer.pk # Signee.pk
    /\ Signer.signedBy # Signee.signedBy

C9_KeyFirst ==
    op = "verify" =>
        /\ result.tag \in {"Ok", "Err"}
        /\ certs = arg
        /\ Len(calls) >= 1
        /\ calls[1] = LibCall("X509::public_key", Signer, 0)
        /\ \A i \in 1..Len(calls) : calls[i].fn = "X509::verify" => i = 2
        /\ ~KeyExtracted =>
              /\ result.tag = "Err"
              /\ result.val = From_ErrorStack_for_Error(X509_public_key(Signer).val)
              /\ Len(calls) = 1

\* C9 witness: verify ended on a signer whose key cannot be extracted.
C9_Witness ==
    /\ op = "verify"
    /\ ~KeyExtracted
    /\ result.tag = "Err"

\* The strings "pem", "der", written out letter by letter.
TextPem == <<112>> \o <<101>> \o <<109>>
TextDer == <<100>> \o <<101>> \o <<114>>

\* C7: parsing accepts exactly "pem" and "der" and answers UnknownFormat for
\* every other string; parsing the display of a value gives the value back and
\* displaying the parse of an accepted string gives the string back.
C7_CertFormatStrings ==
    /\ calls = <<"from_str">> =>
          /\ arg = TextPem => (result.tag = "Ok" /\ result.val = "Pem")
          /\ arg = TextDer => (result.tag = "Ok" /\ result.val = "Der")
          /\ (arg # TextPem /\ arg # TextDer) =>
                (result.tag = "Err" /\ result.val.type = "CertFormatError"
                                    /\ result.val.msg = "UnknownFormat")
    /\ calls = <<"fmt", "from_str">> => (result.tag = "Ok" /\ result.val = arg)
    /\ calls = <<"from_str", "fmt">> => (result.tag = "Ok" /\ result.val = arg)

\* C7 witness: an accepted string was parsed and the parsed value displayed.
C7_Witness ==
    /\ calls = <<"from_str", "fmt">>
    /\ result.tag = "Ok"
    /\ result.val = arg

\* C8: a Certificate obtained from from_pem serializes with to_pem and decodes
\* again to an equal Certificate; likewise with from_der and to_der.
C8_RoundTrip ==
    /\ calls = <<"from_pem", "to_pem">> => result.tag = "Ok"
    /\ calls = <<"from_pem", "to_pem", "from_pem">> => (result.tag = "Ok" /\ result.val = certs[1])
    /\ calls = <<"from_der", "to_der">> => result.tag = "Ok"
    /\ calls = <<"from_der", "to_der", "from_der">> => (result.tag = "Ok" /\ result.val = certs[1])

\* C8 witness: a Certificate decoded from PEM was serialized and decoded again.
C8_Witness ==
    /\ calls = <<"from_pem", "to_pem", "from_pem">>
    /\ result.tag = "Ok"

\* C10: converting a slice of X509 structures gives a defined Certificate for
\* every slice, the empty one included, and for a non-empty slice the wrapper
\* of element 0.
C10_SliceDefined ==
    op = "from_slice" =>
        /\ result.tag = "Ret"
        /\ Len(arg) > 0 => result.val = <<arg[1]>>
====
